---- MODULE Spec2Model ----
(***************************************************************************)
(* The travel-listing backend: the tables Listing, Booking and Review      *)
(* (listings/models.py), the seed management command                       *)
(* (listings/management/commands/seed.py) and the REST serializers         *)
(* (listings/serializers.py).                                              *)
(*                                                                         *)
(* Rows carry the columns the relations and derived values depend on:      *)
(* keys, foreign keys, prices, dates and server timestamps.  Free-text     *)
(* columns (title, address, comment, ...) and the enum columns that no     *)
(* relation reads (status, property_type, rating) are left out.            *)
(*                                                                         *)
(* Money: price_per_night in the seed command is a Python float drawn by   *)
(* random.uniform; it is modelled in thousandths of a currency unit.       *)
(* A DecimalField(decimal_places=2) column stores hundredths (cents).      *)
(***************************************************************************)
EXTENDS Integers, Sequences, FiniteSets, TLC

VARIABLES
    users,        \* table of the user model: [id, username, email, role, is_superuser]
    listings,     \* table listings: [listing_id, host, price_per_night, created_at, updated_at]
    bookings,     \* table bookings: [booking_id, property, user, check_in_date,
                  \*                  check_out_date, total_price, booked_at]
    reviews,      \* table reviews: [review_id, property, user, created_at]
    nextId,       \* source of fresh primary keys (uuid4 / auto id): never reused
    now,          \* timezone.now()
    pc,           \* position of the seed command in handle()
    raised,       \* the exception that ended handle(), or "none"
    opts,         \* options of the running seed command
    outer,        \* index of the outer loop of the current phase
    inner,        \* index of the inner loop of the current phase
    runUsers,     \* local `users` of handle(): ids, in order
    hosts,        \* local `hosts` of handle(): ids, in order
    guests,       \* local `guests` of handle(): ids, in order
    runListings,  \* local `listings` of handle(): the in-memory objects
                  \* [listing_id, host, price_per_night], the price as handed to create()
    fallback,     \* whether this run took the `if not hosts` branch
    superBefore,  \* the superusers present when the run started
    runs,         \* number of seed runs started
    spent,        \* sum of the counts given to the seed runs so far
    requests,     \* number of requests made to the serializers and models
    last          \* the last request to the serializers and models, and its outcome

vars == <<users, listings, bookings, reviews, nextId, now, pc, raised, opts, outer, inner,
          runUsers, hosts, guests, runListings, fallback, superBefore, runs,
          spent, requests, last>>

seedLocals == <<raised, opts, outer, inner, runUsers, hosts, guests, runListings, fallback,
                superBefore, runs, spent>>
apiVars == <<requests, last>>

(***************************************************************************)
(* Bounds of the model.                                                    *)
(***************************************************************************)
\* Seed runs started.
MaxRuns == 2
\* Sum, over all seed runs, of the four counts given on the command line.
MaxWork == 4
\* Requests made to the serializers and models.
MaxRequests == 2
\* Ticks of the clock while the serializers are in use.
MaxTime == 1

(***************************************************************************)
(* Program constants.                                                      *)
(***************************************************************************)
StayMin == 2
StayMax == 7
CheckInMin == 1
CheckInMax == 30
PriceMin == 50000

Roles == {"guest", "host"}

\* The draws of random.randint(2, 7) the model takes: both ends and one inside.
StayDraws == {StayMin, StayMin + 1, StayMax}
\* The draws of random.randint(1, 30) the model takes.
CheckInDraws == {CheckInMin, CheckInMax}
\* The draws of random.uniform(50.00, 500.00) the model takes, in thousandths:
\* one that is a whole number of cents and one that is not.
PriceDraws == {PriceMin, PriceMin + 4}

(***************************************************************************)
(* Pure helpers.                                                           *)
(***************************************************************************)
\* Thousandths per cent: 10^(3 - decimal_places).
Scale == 10

\* DecimalField(decimal_places=2) on save: quantize to cents, ROUND_HALF_EVEN.
Quantize(milli) ==
    LET q == milli \div Scale
        r == milli % Scale
    IN  IF 2 * r < Scale THEN q
        ELSE IF 2 * r > Scale THEN q + 1
        ELSE IF q % 2 = 0 THEN q ELSE q + 1

\* Usernames and emails: f"user{n}" and f"user{n}@example.com", "auto_host" and
\* "auto_host@example.com"; an email is its local part at a domain.
EmailOf(username) == [local |-> username, domain |-> "example.com"]
UserName(n) == [kind |-> "user", n |-> n]
UserEmail(n) == EmailOf(UserName(n))
AutoHostName == [kind |-> "auto_host", n |-> 0]
AutoHostEmail == EmailOf(AutoHostName)
AdminName == [kind |-> "admin", n |-> 0]

Range(s) == {s[n] : n \in 1..Len(s)}

UserById(id) == CHOOSE u \in users : u.id = id

\* User.objects.filter(email=email).exists()
EmailExists(email) == \E u \in users : u.email = email

\* The uniqueness of username in the user model (AbstractUser.username).
UsernameTaken(username) == \E u \in users : u.username = username

NewUser(id, username, email, role) ==
    [id |-> id, username |-> username, email |-> email, role |-> role,
     is_superuser |-> FALSE]

(***************************************************************************)
(* Cascading deletes (on_delete=models.CASCADE).                           *)
(***************************************************************************)
\* BookingsOfListings under on_delete=DO_NOTHING.
BookingsOfListingsNone(L) == {}

\* Rows that go with the listings whose ids are in L.
BookingsOfListings(L) == {b \in bookings : b.property \in L}
ReviewsOfListings(L) == {r \in reviews : r.property \in L}

\* ListingsOfUsers under on_delete=DO_NOTHING.
ListingsOfUsersNone(U) == {}

\* Listing ids that go with the users whose ids are in U.
ListingsOfUsers(U) == {l.listing_id : l \in {x \in listings : x.host \in U}}

(***************************************************************************)
(* The seed command: handle().                                             *)
(***************************************************************************)
Idle == pc \in {"idle", "done", "aborted"}

StartSeed(clear, nu, nl, nb, nr) ==
    /\ Idle
    /\ runs < MaxRuns
    /\ spent + nu + nl + nb + nr <= MaxWork
    /\ runs' = runs + 1
    /\ spent' = spent + nu + nl + nb + nr
    /\ opts' = [clear |-> clear, num_users |-> nu, num_listings_per_host |-> nl,
                num_bookings_per_listing |-> nb, num_reviews_per_listing |-> nr]
    /\ pc' = IF clear THEN "clear_reviews" ELSE "gen_users"
    /\ raised' = "none"
    /\ outer' = 0
    /\ inner' = 0
    /\ runUsers' = <<>>
    /\ hosts' = <<>>
    /\ guests' = <<>>
    /\ runListings' = <<>>
    /\ fallback' = FALSE
    /\ superBefore' = {u \in users : u.is_superuser}
    /\ UNCHANGED <<users, listings, bookings, reviews, nextId, now, apiVars>>

\* Review.objects.all().delete()
ClearReviews ==
    /\ pc = "clear_reviews"
    /\ reviews' = {}
    /\ pc' = "clear_bookings"
    /\ UNCHANGED <<users, listings, bookings, nextId, now, seedLocals, apiVars>>

\* Booking.objects.all().delete()
ClearBookings ==
    /\ pc = "clear_bookings"
    /\ bookings' = {}
    /\ pc' = "clear_listings"
    /\ UNCHANGED <<users, listings, reviews, nextId, now, seedLocals, apiVars>>

\* Listing.objects.all().delete(), with the cascade to bookings and reviews
ClearListings ==
    /\ pc = "clear_listings"
    /\ LET gone == {l.listing_id : l \in listings}
       IN  /\ bookings' = bookings \ BookingsOfListings(gone)
           /\ reviews' = reviews \ ReviewsOfListings(gone)
    /\ listings' = {}
    /\ pc' = "clear_users"
    /\ UNCHANGED <<users, nextId, now, seedLocals, apiVars>>

\* ClearUsersSelection without the filter: User.objects.all()
ClearUsersSelectionAll == users

\* The users User.objects.filter(is_superuser=False) selects.
ClearUsersSelection == {u \in users : ~u.is_superuser}

\* User.objects.filter(is_superuser=False).delete(), with the cascade
ClearUsers ==
    /\ pc = "clear_users"
    /\ LET gone == {u.id : u \in ClearUsersSelection}
           goneL == ListingsOfUsers(gone)
       IN  /\ users' = users \ ClearUsersSelection
           /\ listings' = {l \in listings : l.listing_id \notin goneL}
           /\ bookings' = {b \in bookings : b.user \notin gone /\ b.property \notin goneL}
           /\ reviews' = {r \in reviews : r.user \notin gone /\ r.property \notin goneL}
    /\ pc' = "gen_users"
    /\ UNCHANGED <<nextId, now, seedLocals, apiVars>>

\* The body of `for i in range(num_users)`: one iteration.
GenUser(role) ==
    /\ pc = "gen_users"
    /\ outer < opts.num_users
    /\ LET email == UserEmail(outer)
           found == {u \in users : u.email = email}
       IN  IF ~EmailExists(email)
           THEN IF UsernameTaken(UserName(outer))
                THEN \* create_user raises IntegrityError: handle() ends
                     /\ pc' = "aborted"
                     /\ raised' = "IntegrityError: users.username"
                     /\ UNCHANGED <<users, nextId, runUsers, outer>>
                ELSE /\ users' = users \cup {NewUser(nextId, UserName(outer), email, role)}
                     /\ runUsers' = Append(runUsers, nextId)
                     /\ nextId' = nextId + 1
                     /\ outer' = outer + 1
                     /\ UNCHANGED <<pc, raised>>
           ELSE IF Cardinality(found) = 1
                THEN \* users.append(User.objects.get(email=email))
                     /\ role = "guest"
                     /\ runUsers' = Append(runUsers, (CHOOSE u \in found : TRUE).id)
                     /\ outer' = outer + 1
                     /\ UNCHANGED <<users, nextId, pc, raised>>
                ELSE \* get() raises MultipleObjectsReturned: handle() ends
                     /\ role = "guest"
                     /\ pc' = "aborted"
                     /\ raised' = "MultipleObjectsReturned"
                     /\ UNCHANGED <<users, nextId, runUsers, outer>>
    /\ UNCHANGED <<listings, bookings, reviews, now, opts, inner, hosts, guests,
                   runListings, fallback, superBefore, runs, spent, apiVars>>

\* [u for u in users if u.role == role], on the ids in runUsers
WithRole(ids, role) == SelectSeq(ids, LAMBDA id : UserById(id).role = role)

\* FallbackHost with the email of the first sample user pasted in.
FallbackHostPastedEmail(id) == NewUser(id, AutoHostName, UserEmail(0), "host")

\* The user the `if not hosts` branch creates.
FallbackHost(id) == NewUser(id, AutoHostName, AutoHostEmail, "host")

\* The partition into hosts and guests and the fallback host (lines 95-109).
PartitionUsers ==
    /\ pc = "gen_users"
    /\ outer = opts.num_users
    /\ guests' = WithRole(runUsers, "guest")
    /\ LET hs == WithRole(runUsers, "host")
       IN  IF hs # <<>>
           THEN /\ hosts' = hs
                /\ pc' = "gen_listings"
                /\ UNCHANGED <<users, nextId, runUsers, fallback, raised>>
           ELSE /\ fallback' = TRUE
                /\ IF UsernameTaken(FallbackHost(nextId).username)
                   THEN \* create_user raises IntegrityError: handle() ends
                        /\ pc' = "aborted"
                        /\ raised' = "IntegrityError: users.username"
                        /\ hosts' = hs
                        /\ UNCHANGED <<users, nextId, runUsers>>
                   ELSE /\ users' = users \cup {FallbackHost(nextId)}
                        /\ hosts' = Append(hs, nextId)
                        /\ runUsers' = Append(runUsers, nextId)
                        /\ nextId' = nextId + 1
                        /\ pc' = "gen_listings"
                        /\ UNCHANGED raised
    /\ outer' = 0
    /\ inner' = 0
    /\ UNCHANGED <<listings, bookings, reviews, now, opts, runListings, superBefore,
                   runs, spent, apiVars>>

\* The loop counters after one more iteration of an inner loop of `n` rounds.
NextOuter(n) == IF inner + 1 < n THEN outer ELSE outer + 1
NextInner(n) == IF inner + 1 < n THEN inner + 1 ELSE 0

\* Listing.objects.create(host=host, price_per_night=raw, ...): one iteration.
GenListing(raw) ==
    /\ pc = "gen_listings"
    /\ outer < Len(hosts)
    /\ inner < opts.num_listings_per_host
    /\ listings' = listings \cup
           {[listing_id |-> nextId, host |-> hosts[outer + 1],
             price_per_night |-> Quantize(raw), created_at |-> now, updated_at |-> now]}
    /\ runListings' = Append(runListings,
           [listing_id |-> nextId, host |-> hosts[outer + 1], price_per_night |-> raw])
    /\ nextId' = nextId + 1
    /\ outer' = NextOuter(opts.num_listings_per_host)
    /\ inner' = NextInner(opts.num_listings_per_host)
    /\ UNCHANGED <<users, bookings, reviews, now, pc, raised, opts, runUsers, hosts, guests,
                   fallback, superBefore, runs, spent, apiVars>>

\* The listing loops are exhausted: on to the bookings.
ListingsDone ==
    /\ pc = "gen_listings"
    /\ (outer >= Len(hosts) \/ opts.num_listings_per_host = 0)
    /\ pc' = "gen_bookings"
    /\ outer' = 0
    /\ inner' = 0
    /\ UNCHANGED <<users, listings, bookings, reviews, nextId, now, raised, opts, runUsers,
                   hosts, guests, runListings, fallback, superBefore, runs, spent, apiVars>>

\* total_price = listing.price_per_night * (check_out - check_in).days, on the
\* in-memory listing (the float handed to create()), then stored in cents.
TotalPrice(listing, check_in, check_out) == Quantize(listing.price_per_night * (check_out - check_in))

\* CheckOut counting the day of arrival as the first day of the stay.
CheckOutInclusive(check_in, stay) == check_in + stay - 1

\* check_out = check_in + timedelta(days=random.randint(2, 7))
CheckOut(check_in, stay) == check_in + stay

\* The body of `for i in range(num_bookings_per_listing)`: one iteration.
GenBooking(guest, offset, stay) ==
    /\ pc = "gen_bookings"
    /\ outer < Len(runListings)
    /\ inner < opts.num_bookings_per_listing
    /\ IF guests # <<>>
       THEN /\ guest \in Range(guests)
            /\ LET listing == runListings[outer + 1]
                   check_in == now + offset
                   check_out == CheckOut(check_in, stay)
               IN  bookings' = bookings \cup
                       {[booking_id |-> nextId, property |-> listing.listing_id,
                         user |-> guest, check_in_date |-> check_in,
                         check_out_date |-> check_out,
                         total_price |-> TotalPrice(listing, check_in, check_out),
                         booked_at |-> now]}
            /\ nextId' = nextId + 1
       ELSE \* only a warning is written
            /\ guest = 0 /\ offset = CheckInMin /\ stay = StayMin
            /\ UNCHANGED <<bookings, nextId>>
    /\ outer' = NextOuter(opts.num_bookings_per_listing)
    /\ inner' = NextInner(opts.num_bookings_per_listing)
    /\ UNCHANGED <<users, listings, reviews, now, pc, raised, opts, runUsers, hosts, guests,
                   runListings, fallback, superBefore, runs, spent, apiVars>>

\* The booking loops are exhausted: on to the reviews.
BookingsDone ==
    /\ pc = "gen_bookings"
    /\ (outer >= Len(runListings) \/ opts.num_bookings_per_listing = 0)
    /\ pc' = "gen_reviews"
    /\ outer' = 0
    /\ inner' = 0
    /\ UNCHANGED <<users, listings, bookings, reviews, nextId, now, raised, opts, runUsers,
                   hosts, guests, runListings, fallback, superBefore, runs, spent, apiVars>>

\* ReviewExists with the check left out.
ReviewExistsUnchecked(property, user) == FALSE

\* Review.objects.filter(property=listing, user=reviewer).exists()
ReviewExists(property, user) ==
    \E r \in reviews : r.property = property /\ r.user = user

\* unique_together = ('property', 'user') of Review.Meta: whether a row other than
\* `except` already holds the pair.
UniqueTogetherViolated(property, user, except) ==
    \E r \in reviews : r.property = property /\ r.user = user /\ r.review_id # except

\* The body of `for i in range(num_reviews_per_listing)`: one iteration.
GenReview(reviewer) ==
    /\ pc = "gen_reviews"
    /\ outer < Len(runListings)
    /\ inner < opts.num_reviews_per_listing
    /\ IF guests # <<>>
       THEN /\ reviewer \in Range(guests)
            /\ LET property == runListings[outer + 1].listing_id
               IN  IF ~ReviewExists(property, reviewer)
                   THEN IF UniqueTogetherViolated(property, reviewer, nextId)
                        THEN \* Review.objects.create raises IntegrityError
                             /\ pc' = "aborted"
                             /\ raised' = "IntegrityError: reviews.property_user"
                             /\ UNCHANGED <<reviews, nextId>>
                        ELSE /\ reviews' = reviews \cup
                                    {[review_id |-> nextId, property |-> property,
                                      user |-> reviewer, created_at |-> now]}
                             /\ nextId' = nextId + 1
                             /\ UNCHANGED <<pc, raised>>
                   ELSE \* "already reviewed ..., skipping."
                        UNCHANGED <<reviews, nextId, pc, raised>>
       ELSE \* only a warning is written
            /\ reviewer = 0
            /\ UNCHANGED <<reviews, nextId, pc, raised>>
    /\ outer' = NextOuter(opts.num_reviews_per_listing)
    /\ inner' = NextInner(opts.num_reviews_per_listing)
    /\ UNCHANGED <<users, listings, bookings, now, opts, runUsers, hosts, guests,
                   runListings, fallback, superBefore, runs, spent, apiVars>>

\* The review loops are exhausted: "Database seeding completed successfully!"
Finish ==
    /\ pc = "gen_reviews"
    /\ (outer >= Len(runListings) \/ opts.num_reviews_per_listing = 0)
    /\ pc' = "done"
    /\ UNCHANGED <<users, listings, bookings, reviews, nextId, now, raised, opts, outer, inner,
                   runUsers, hosts, guests, runListings, fallback, superBefore, runs,
                   spent, apiVars>>

\* One step of a seed command that is under way.
SeedStep ==
    \/ ClearReviews
    \/ ClearBookings
    \/ ClearListings
    \/ ClearUsers
    \/ \E role \in Roles : GenUser(role)
    \/ PartitionUsers
    \/ \E raw \in PriceDraws : GenListing(raw)
    \/ ListingsDone
    \/ \E guest \in {0} \cup {u.id : u \in users}, offset \in CheckInDraws,
          stay \in StayDraws : GenBooking(guest, offset, stay)
    \/ BookingsDone
    \/ \E reviewer \in {0} \cup {u.id : u \in users} : GenReview(reviewer)
    \/ Finish

\* The last request and its response.
\* The request (operation, key of the row, whether read-only keys were supplied) and
\* the response (accepted or not, the error, the body of a read).
Response(op, ok, error, id, forged, body) ==
    [op |-> op, ok |-> ok, error |-> error, id |-> id, forged |-> forged, body |-> body]

NoLast == Response("none", TRUE, "none", 0, FALSE, <<>>)

\* A database holding one superuser (createsuperuser), before any seeding.
Admin == [id |-> 1, username |-> AdminName, email |-> EmailOf(AdminName),
          role |-> "guest", is_superuser |-> TRUE]

Init ==
    /\ users = {Admin}
    /\ listings = {}
    /\ bookings = {}
    /\ reviews = {}
    /\ nextId = 2
    /\ now = 0
    /\ pc = "idle"
    /\ raised = "none"
    /\ opts = [clear |-> FALSE, num_users |-> 0, num_listings_per_host |-> 0,
               num_bookings_per_listing |-> 0, num_reviews_per_listing |-> 0]
    /\ outer = 0
    /\ inner = 0
    /\ runUsers = <<>>
    /\ hosts = <<>>
    /\ guests = <<>>
    /\ runListings = <<>>
    /\ fallback = FALSE
    /\ superBefore = {}
    /\ runs = 0
    /\ spent = 0
    /\ requests = 0
    /\ last = NoLast

Next ==
    \/ /\ Idle
       /\ \E clear \in BOOLEAN, nu \in 0..(MaxWork - spent) :
             \E nl \in 0..(MaxWork - spent - nu) :
                \E nb \in 0..(MaxWork - spent - nu - nl) :
                   \E nr \in 0..(MaxWork - spent - nu - nl - nb) :
                      StartSeed(clear, nu, nl, nb, nr)
    \/ SeedStep

Spec == Init /\ [][Next]_vars

\* A seed command that was started keeps running: nothing suspends handle().
FairSpec == Spec /\ WF_vars(SeedStep)

(***************************************************************************)
(* Properties of the seed command.                                         *)
(***************************************************************************)
ReviewsOf(listing_id) == {r \in reviews : r.property = listing_id}
BookingsOf(listing_id) == {b \in bookings : b.property = listing_id}
ClearPhase == {"clear_reviews", "clear_bookings", "clear_listings", "clear_users"}

\* C1: no two Review rows share a (listing, user) pair, and the review phase never
\* runs into the uniqueness constraint: it creates a review only for a pair that has
\* none and skips the others.
C1_ReviewPairsUnique ==
    /\ \A r1 \in reviews, r2 \in reviews :
          (r1.property = r2.property /\ r1.user = r2.user) => r1 = r2
    /\ raised # "IntegrityError: reviews.property_user"

\* A finished run that asked for more reviews of a listing than it created: a pick
\* of an already reviewed (listing, guest) pair was skipped.
C1_Witness ==
    /\ pc = "done"
    /\ guests # <<>>
    /\ \E l \in Range(runListings) :
          /\ ReviewsOf(l.listing_id) # {}
          /\ Cardinality(ReviewsOf(l.listing_id)) < opts.num_reviews_per_listing

\* C2 (as claimed): every Booking's stored total_price is its number of nights times
\* the stored price_per_night of its listing.
C2_TotalPriceIsNightsTimesPrice ==
    \A b \in bookings : \A l \in listings :
        l.listing_id = b.property =>
            b.total_price = (b.check_out_date - b.check_in_date) * l.price_per_night

C5_FallbackRunCompletes ==
    fallback =>
        /\ raised = "none"
        /\ Cardinality({u \in users : u.username = AutoHostName}) = 1
        /\ pc = "done" =>
              /\ Len(runListings) = opts.num_listings_per_host
              /\ \A l \in Range(runListings) : UserById(l.host).username = AutoHostName

\* The order of the clear phase: each step empties its own table and leaves the
\* later ones alone, and no user is generated before the phase is over.
C9_ClearStep ==
    /\ pc = "clear_reviews" =>
          /\ pc' = "clear_bookings"
          /\ reviews' = {}
          /\ UNCHANGED <<bookings, listings, users>>
    /\ pc = "clear_bookings" =>
          /\ pc' = "clear_listings"
          /\ bookings' = {}
          /\ UNCHANGED <<reviews, listings, users>>
    /\ pc = "clear_listings" =>
          /\ pc' = "clear_users"
          /\ listings' = {}
          /\ UNCHANGED users
    /\ pc = "clear_users" =>
          /\ pc' = "gen_users"
          /\ users' = {u \in users : u.is_superuser}
    /\ pc \in ClearPhase => UNCHANGED <<runUsers, nextId>>

\* The state the clear phase leaves, and what holds all along it.
C9_ClearState ==
    /\ pc \in ClearPhase =>
          /\ opts.clear
          /\ runUsers = <<>>
          /\ superBefore \subseteq users
    /\ pc \in {"clear_bookings", "clear_listings", "clear_users"} => reviews = {}
    /\ pc \in {"clear_listings", "clear_users"} => bookings = {}
    /\ pc = "clear_users" => listings = {}
    /\ (opts.clear /\ pc = "gen_users" /\ runUsers = <<>>) =>
          /\ reviews = {} /\ bookings = {} /\ listings = {}
          /\ users = superBefore

\* C9: with the clear flag the command deletes Reviews, then Bookings, then
\* Listings, then the non-superuser Users, all before it generates a user; the
\* phase ends with those three tables empty and exactly the superusers left.
C9_ClearPhase == [][C9_ClearStep]_vars /\ []C9_ClearState

\* The clear phase after its first step, with a review already gone (more keys
\* were handed out than rows are left) and bookings, listings, sample users and
\* the superuser still there.
C9_Witness ==
    /\ pc = "clear_bookings"
    /\ bookings # {}
    /\ listings # {}
    /\ superBefore # {}
    /\ Cardinality(users) > Cardinality(superBefore)
    /\ nextId - 1 > Cardinality(users) + Cardinality(listings) + Cardinality(bookings)

\* What the booking phase leaves for the listings of the run.
C10_Bookings ==
    pc \in {"gen_reviews", "done"} =>
        \A l \in Range(runListings) :
            IF guests # <<>>
            THEN /\ Cardinality(BookingsOf(l.listing_id)) = opts.num_bookings_per_listing
                 /\ \A b \in BookingsOf(l.listing_id) :
                       /\ b.user \in Range(guests)
                       /\ b.check_out_date - b.check_in_date \in StayMin..StayMax
            ELSE /\ BookingsOf(l.listing_id) = {}
                 /\ ReviewsOf(l.listing_id) = {}

\* The listings of a run are all there when its booking phase starts.
C10_Listings ==
    pc \in {"gen_bookings", "gen_reviews", "done"} =>
        /\ Len(runListings) = Len(hosts) * opts.num_listings_per_host
        /\ \A l \in Range(runListings) : \E x \in listings : x.listing_id = l.listing_id

\* C10: each listing of a run gets exactly num_bookings_per_listing bookings when
\* the run has guests, each of a guest of the run and 2 to 7 nights long; without
\* guests it gets no booking and no review; and either way the run, once its
\* listings are created, goes on to completion.
C10_BookingPhase ==
    /\ [](C10_Bookings /\ C10_Listings)
    /\ (pc = "gen_bookings") ~> (pc = "done")

\* A finished run with guests that gave each of its listings two bookings.
C10_Witness ==
    /\ pc = "done"
    /\ guests # <<>>
    /\ runListings # <<>>
    /\ opts.num_bookings_per_listing = 2
    /\ Cardinality(bookings) >= 2

(***************************************************************************)
(* The serializers: the fields of each (name, source, read-only), the      *)
(* validated data of a write, and the model's create and update.           *)
(***************************************************************************)
Field(name, source, read_only) ==
    [name |-> name, source |-> source, read_only |-> read_only]

\* ListingSerializer: Meta.fields with read_only_fields; host_id writes `host`.
ListingFields ==
    {Field("listing_id", "listing_id", TRUE), Field("host", "host", TRUE),
     Field("host_id", "host", FALSE), Field("price_per_night", "price_per_night", FALSE),
     Field("created_at", "created_at", TRUE), Field("updated_at", "updated_at", TRUE),
     Field("reviews", "reviews", TRUE)}

\* BookingSerializer: property_id and user_id write `property` and `user`.
BookingFields ==
    {Field("booking_id", "booking_id", TRUE), Field("property", "property", TRUE),
     Field("user", "user", TRUE), Field("check_in_date", "check_in_date", FALSE),
     Field("check_out_date", "check_out_date", FALSE),
     Field("total_price", "total_price", FALSE), Field("booked_at", "booked_at", TRUE),
     Field("property_id", "property", FALSE), Field("user_id", "user", FALSE)}

\* ReviewSerializer: property_id and user_id write `property` and `user`.
ReviewFields ==
    {Field("review_id", "review_id", TRUE), Field("property", "property", TRUE),
     Field("user", "user", TRUE), Field("created_at", "created_at", TRUE),
     Field("property_id", "property", FALSE), Field("user_id", "user", FALSE)}

\* The columns of each model, its key and its server-assigned timestamps.
ListingModel ==
    [pk |-> "listing_id",
     columns |-> {"listing_id", "host", "price_per_night", "created_at", "updated_at"},
     auto_now_add |-> {"created_at"}, auto_now |-> {"updated_at"}]
BookingModel ==
    [pk |-> "booking_id",
     columns |-> {"booking_id", "property", "user", "check_in_date", "check_out_date",
                  "total_price", "booked_at"},
     auto_now_add |-> {"booked_at"}, auto_now |-> {}]
ReviewModel ==
    [pk |-> "review_id", columns |-> {"review_id", "property", "user", "created_at"},
     auto_now_add |-> {"created_at"}, auto_now |-> {}]

\* Writable with the read-only marks ignored.
WritableAll(fields) == fields

\* The fields a write reads: those not read-only.
Writable(fields) == {f \in fields : ~f.read_only}

ReadOnlyNames(fields) == {f.name : f \in {g \in fields : g.read_only}}

\* validated_data: for each writable field present in the payload, its value under
\* the field's source.
Validated(fields, data) ==
    LET present == {f \in Writable(fields) : f.name \in DOMAIN data}
    IN  [src \in {f.source : f \in present} |->
            data[(CHOOSE f \in present : f.source = src).name]]

\* Model.objects.create(**validated_data): the key defaults to a fresh one, the
\* auto_now_add and auto_now columns are set to the time of the save.
ModelCreate(model, v, id, t) ==
    [c \in model.columns |->
        IF c \in model.auto_now_add \cup model.auto_now THEN t
        ELSE IF c \in DOMAIN v THEN v[c]
        ELSE id]

\* setattr(instance, attr, value) for the validated data, then instance.save():
\* only the auto_now columns are set to the time of the save.
ModelUpdate(model, row, v, t) ==
    [c \in model.columns |->
        IF c \in model.auto_now THEN t
        ELSE IF c \in DOMAIN v THEN v[c]
        ELSE row[c]]

UserIds == {u.id : u \in users}
ListingIds == {l.listing_id : l \in listings}

\* The querysets of the PrimaryKeyRelatedFields, by source.
RelatedIds(source) == IF source = "property" THEN ListingIds ELSE UserIds
ForeignKeys == {"host", "property", "user"}

\* "Invalid pk - object does not exist."
InvalidPk(v) == \E src \in DOMAIN v \cap ForeignKeys : v[src] \notin RelatedIds(src)

\* What a caller puts under a read-only key: a time that is not the server's, a
\* key that is not the one the server hands out.
Forged(name) ==
    IF name \in {"created_at", "updated_at", "booked_at"} THEN now + 1 ELSE nextId + 1

\* The payload: the data, and with `forged` every read-only key as well.
Payload(fields, data, forged) ==
    IF forged
    THEN [k \in DOMAIN data \cup ReadOnlyNames(fields) |->
             IF k \in DOMAIN data THEN data[k] ELSE Forged(k)]
    ELSE data

\* A request is served while no seed command runs.
CanServe ==
    /\ Idle
    /\ requests < MaxRequests

Served == requests' = requests + 1

\* ListingSerializer(data=payload): is_valid() and save().
ListingCreate(data, forged) ==
    /\ CanServe
    /\ Served
    /\ LET v == Validated(ListingFields, Payload(ListingFields, data, forged))
       IN  IF InvalidPk(v)
           THEN /\ last' = Response("listing_create", FALSE, "ValidationError: does_not_exist", nextId, forged, <<>>)
                /\ UNCHANGED <<listings, nextId>>
           ELSE /\ listings' = listings \cup {ModelCreate(ListingModel, v, nextId, now)}
                /\ nextId' = nextId + 1
                /\ last' = Response("listing_create", TRUE, "none", nextId, forged, <<>>)
    /\ UNCHANGED <<users, bookings, reviews, now, pc, seedLocals>>

\* ListingSerializer(instance, data=payload, partial=True): is_valid() and save().
ListingUpdate(row, data, forged) ==
    /\ CanServe
    /\ Served
    /\ row \in listings
    /\ LET v == Validated(ListingFields, Payload(ListingFields, data, forged))
       IN  IF InvalidPk(v)
           THEN /\ last' = Response("listing_update", FALSE, "ValidationError: does_not_exist", row.listing_id, forged, <<>>)
                /\ UNCHANGED listings
           ELSE /\ listings' = (listings \ {row}) \cup {ModelUpdate(ListingModel, row, v, now)}
                /\ last' = Response("listing_update", TRUE, "none", row.listing_id, forged, <<>>)
    /\ UNCHANGED <<users, bookings, reviews, nextId, now, pc, seedLocals>>

\* BookingSerializer(data=payload): is_valid() and save().
BookingCreate(data, forged) ==
    /\ CanServe
    /\ Served
    /\ LET v == Validated(BookingFields, Payload(BookingFields, data, forged))
       IN  IF InvalidPk(v)
           THEN /\ last' = Response("booking_create", FALSE, "ValidationError: does_not_exist", nextId, forged, <<>>)
                /\ UNCHANGED <<bookings, nextId>>
           ELSE /\ bookings' = bookings \cup {ModelCreate(BookingModel, v, nextId, now)}
                /\ nextId' = nextId + 1
                /\ last' = Response("booking_create", TRUE, "none", nextId, forged, <<>>)
    /\ UNCHANGED <<users, listings, reviews, now, pc, seedLocals>>

\* BookingSerializer(instance, data=payload, partial=True): is_valid() and save().
BookingUpdate(row, data, forged) ==
    /\ CanServe
    /\ Served
    /\ row \in bookings
    /\ LET v == Validated(BookingFields, Payload(BookingFields, data, forged))
       IN  IF InvalidPk(v)
           THEN /\ last' = Response("booking_update", FALSE, "ValidationError: does_not_exist", row.booking_id, forged, <<>>)
                /\ UNCHANGED bookings
           ELSE /\ bookings' = (bookings \ {row}) \cup {ModelUpdate(BookingModel, row, v, now)}
                /\ last' = Response("booking_update", TRUE, "none", row.booking_id, forged, <<>>)
    /\ UNCHANGED <<users, listings, reviews, nextId, now, pc, seedLocals>>

\* UniqueTogetherViolated with the constraint left out.
NeverViolated(property, user, except) == FALSE

\* The unique_together check of a review write: the validator the serializer
\* derives from Review.Meta, and the constraint of the table behind it.
ReviewPairTaken(property, user, except) == UniqueTogetherViolated(property, user, except)

\* ReviewSerializer(data=payload): is_valid() and save().
ReviewCreate(data, forged) ==
    /\ CanServe
    /\ Served
    /\ LET v == Validated(ReviewFields, Payload(ReviewFields, data, forged))
       IN  IF InvalidPk(v)
           THEN /\ last' = Response("review_create", FALSE, "ValidationError: does_not_exist", nextId, forged, <<>>)
                /\ UNCHANGED <<reviews, nextId>>
           ELSE IF ReviewPairTaken(v.property, v.user, nextId)
           THEN /\ last' = Response("review_create", FALSE, "ValidationError: unique", nextId, forged, <<>>)
                /\ UNCHANGED <<reviews, nextId>>
           ELSE /\ reviews' = reviews \cup {ModelCreate(ReviewModel, v, nextId, now)}
                /\ nextId' = nextId + 1
                /\ last' = Response("review_create", TRUE, "none", nextId, forged, <<>>)
    /\ UNCHANGED <<users, listings, bookings, now, pc, seedLocals>>

\* ReviewSerializer(instance, data=payload, partial=True): is_valid() and save().
ReviewUpdate(row, data, forged) ==
    /\ CanServe
    /\ Served
    /\ row \in reviews
    /\ LET v == Validated(ReviewFields, Payload(ReviewFields, data, forged))
           new == ModelUpdate(ReviewModel, row, v, now)
       IN  IF InvalidPk(v)
           THEN /\ last' = Response("review_update", FALSE, "ValidationError: does_not_exist", row.review_id, forged, <<>>)
                /\ UNCHANGED reviews
           ELSE IF ReviewPairTaken(new.property, new.user, row.review_id)
           THEN /\ last' = Response("review_update", FALSE, "ValidationError: unique", row.review_id, forged, <<>>)
                /\ UNCHANGED reviews
           ELSE /\ reviews' = (reviews \ {row}) \cup {new}
                /\ last' = Response("review_update", TRUE, "none", row.review_id, forged, <<>>)
    /\ UNCHANGED <<users, listings, bookings, nextId, now, pc, seedLocals>>

\* listing.delete(): the row and, by on_delete=CASCADE, its bookings and reviews;
\* it returns how many rows of each table went.
ListingDelete(row) ==
    /\ CanServe
    /\ Served
    /\ row \in listings
    /\ listings' = listings \ {row}
    /\ bookings' = bookings \ BookingsOfListings({row.listing_id})
    /\ reviews' = reviews \ ReviewsOfListings({row.listing_id})
    /\ last' = Response("listing_delete", TRUE, "none", row.listing_id, FALSE,
                        [bookings |-> Cardinality(BookingsOfListings({row.listing_id})),
                         reviews |-> Cardinality(ReviewsOfListings({row.listing_id}))])
    /\ UNCHANGED <<users, nextId, now, pc, seedLocals>>

\* UserSerializer and ReviewSerializer, read shape: the key, the listing's key, the
\* nested user and the timestamp; property_id and user_id are write-only.
ReviewRepresentation(r) ==
    [review_id |-> r.review_id, property |-> r.property,
     user |-> [id |-> r.user, email |-> UserById(r.user).email],
     created_at |-> r.created_at]

\* obj.reviews.all(): the reverse of Review.property (related_name='reviews').
ReviewsFor(listing_id) == {r \in reviews : r.property = listing_id}

\* The arrangements of the rows of S in a sequence that satisfies `inOrder`.
Arrangements(S, inOrder(_, _)) ==
    {s \in [1..Cardinality(S) -> S] :
        /\ \A a \in 1..Cardinality(S), b \in 1..Cardinality(S) : a # b => s[a] # s[b]
        /\ \A a \in 1..Cardinality(S), b \in 1..Cardinality(S) :
              a < b => inOrder(s[a], s[b])}

\* order_by('created_at')
OrderByCreatedAsc(S) == Arrangements(S, LAMBDA x, y : x.created_at <= y.created_at)

\* order_by('-created_at'): rows with equal timestamps come in any order.
OrderByCreatedDesc(S) == Arrangements(S, LAMBDA x, y : x.created_at >= y.created_at)

\* ListingSerializer.get_reviews(obj), in the read shape of a listing.
ListingRead(row) ==
    /\ CanServe
    /\ Served
    /\ row \in listings
    /\ \E rows \in OrderByCreatedDesc(ReviewsFor(row.listing_id)) :
          last' = Response("listing_read", TRUE, "none", row.listing_id, FALSE,
                           [n \in 1..Len(rows) |-> ReviewRepresentation(rows[n])])
    /\ UNCHANGED <<users, listings, bookings, reviews, nextId, now, pc, seedLocals>>

\* Time passes.
Tick ==
    /\ Idle
    /\ now < MaxTime
    /\ now' = now + 1
    /\ UNCHANGED <<users, listings, bookings, reviews, nextId, pc, seedLocals, requests, last>>

\* The data of the requests the model sends.
PriceInputs == {PriceMin \div Scale}
ListingData ==
    {[host_id |-> h, price_per_night |-> p] : h \in UserIds \cup {nextId}, p \in PriceInputs}
ListingPatches ==
    ListingData \cup {[host_id |-> h] : h \in UserIds}
BookingData ==
    {[property_id |-> l, user_id |-> u, check_in_date |-> CheckInMin,
      check_out_date |-> CheckInMin + StayMin, total_price |-> p * StayMin] :
        l \in ListingIds \cup {nextId}, u \in UserIds, p \in PriceInputs}
BookingPatches ==
    {[user_id |-> u] : u \in UserIds \cup {nextId}} \cup {[property_id |-> l] : l \in ListingIds}
ReviewData ==
    {[property_id |-> l, user_id |-> u] : l \in ListingIds \cup {nextId}, u \in UserIds}
ReviewPatches ==
    {[user_id |-> u] : u \in UserIds} \cup {[property_id |-> l] : l \in ListingIds}

\* The database after `seed --num_users 2 --num_listings_per_host 2
\* --num_bookings_per_listing 0 --num_reviews_per_listing 1` drew the roles host
\* and guest, on top of the superuser.
ApiUsers ==
    {Admin, NewUser(2, UserName(0), UserEmail(0), "host"),
     NewUser(3, UserName(1), UserEmail(1), "guest")}
ApiListings ==
    {[listing_id |-> 4, host |-> 2, price_per_night |-> Quantize(PriceMin),
      created_at |-> 0, updated_at |-> 0],
     [listing_id |-> 5, host |-> 2, price_per_night |-> Quantize(PriceMin),
      created_at |-> 0, updated_at |-> 0]}
ApiReviews ==
    {[review_id |-> 6, property |-> 4, user |-> 3, created_at |-> 0],
     [review_id |-> 7, property |-> 5, user |-> 3, created_at |-> 0]}

ApiInit ==
    /\ users = ApiUsers
    /\ listings = ApiListings
    /\ bookings = {}
    /\ reviews = ApiReviews
    /\ nextId = 8
    /\ now = 0
    /\ pc = "done"
    /\ raised = "none"
    /\ opts = [clear |-> FALSE, num_users |-> 2, num_listings_per_host |-> 2,
               num_bookings_per_listing |-> 0, num_reviews_per_listing |-> 1]
    /\ outer = 2
    /\ inner = 0
    /\ runUsers = <<2, 3>>
    /\ hosts = <<2>>
    /\ guests = <<3>>
    /\ runListings = <<[listing_id |-> 4, host |-> 2, price_per_night |-> PriceMin],
                       [listing_id |-> 5, host |-> 2, price_per_night |-> PriceMin]>>
    /\ fallback = FALSE
    /\ superBefore = {Admin}
    /\ runs = 1
    /\ spent = 5
    /\ requests = 0
    /\ last = NoLast

ApiNext ==
    \/ \E data \in ListingData, forged \in BOOLEAN : ListingCreate(data, forged)
    \/ \E row \in listings, data \in ListingPatches, forged \in BOOLEAN :
          ListingUpdate(row, data, forged)
    \/ \E data \in BookingData, forged \in BOOLEAN : BookingCreate(data, forged)
    \/ \E row \in bookings, data \in BookingPatches, forged \in BOOLEAN :
          BookingUpdate(row, data, forged)
    \/ \E data \in ReviewData, forged \in BOOLEAN : ReviewCreate(data, forged)
    \/ \E row \in reviews, data \in ReviewPatches, forged \in BOOLEAN :
          ReviewUpdate(row, data, forged)
    \/ \E row \in listings : ListingDelete(row)
    \/ \E row \in listings : ListingRead(row)
    \/ Tick

\* The serializers and models in use on a seeded database, no seed command running.
ApiSpec == ApiInit /\ [][ApiNext]_vars

(***************************************************************************)
(* Properties of the models and serializers.                               *)
(***************************************************************************)
\* C3: after a Listing is deleted no Booking and no Review refers to it (and the
\* listing itself is gone).
C3_DeleteCascades ==
    last.op = "listing_delete" =>
        /\ \A l \in listings : l.listing_id # last.id
        /\ \A b \in bookings : b.property # last.id
        /\ \A r \in reviews : r.property # last.id

\* A delete that took at least one booking and one review with the listing.
C3_Witness ==
    /\ last.op = "listing_delete"
    /\ last.body.bookings > 0
    /\ last.body.reviews > 0

\* A create of a Review for a (listing, user) pair that has one already is refused
\* with the validation error of code `unique` ("The fields property, user must make
\* a unique set.") and leaves every table as it was.
C6_Step ==
    \A data \in ReviewData, forged \in BOOLEAN :
        (/\ ReviewCreate(data, forged)
         /\ \E r \in reviews : r.property = data.property_id /\ r.user = data.user_id)
        => /\ ~last'.ok
           /\ last'.error = "ValidationError: unique"
           /\ UNCHANGED <<reviews, listings, bookings, users, nextId>>

\* C6: the second create of a Review for one (listing, user) pair is rejected with
\* the duplicate error and changes nothing: the first row stays the only one.
C6_DuplicateReviewRejected == [][C6_Step]_vars

\* A create of a review that was refused as a duplicate.
C6_Witness ==
    /\ last.op = "review_create"
    /\ ~last.ok
    /\ last.error = "ValidationError: unique"
    /\ \E r \in reviews : TRUE

\* The write shape read by hand: host_id, property_id and user_id name the columns
\* host, property and user; every other key names its own column.
ColumnOf(name) ==
    CASE name = "host_id" -> "host"
      [] name = "property_id" -> "property"
      [] name = "user_id" -> "user"
      [] OTHER -> name
Written(data) ==
    [c \in {ColumnOf(n) : n \in DOMAIN data} |->
        data[CHOOSE n \in DOMAIN data : ColumnOf(n) = c]]

\* The foreign keys among the written columns all name existing rows.
ReferencesExist(data) ==
    \A c \in DOMAIN Written(data) \cap ForeignKeys :
        Written(data)[c] \in (IF c = "property" THEN ListingIds ELSE UserIds)

\* `after` is `before` with one more row: the key is the fresh one, the timestamps
\* are the time of the write, the other columns are the written ones.
CreatedAsWritten(before, after, model, data) ==
    \E r \in after :
        /\ r \notin before
        /\ after = before \cup {r}
        /\ r[model.pk] = nextId
        /\ \A c \in model.auto_now_add \cup model.auto_now : r[c] = now
        /\ \A c \in DOMAIN Written(data) : r[c] = Written(data)[c]

\* `after` is `before` with `row` replaced: same key, same creation timestamp,
\* auto_now timestamps at the time of the write, written columns as written and
\* the others as they were.
UpdatedAsWritten(before, after, model, row, data) ==
    \E r \in after :
        /\ after = (before \ {row}) \cup {r}
        /\ r[model.pk] = row[model.pk]
        /\ \A c \in model.auto_now_add : r[c] = row[c]
        /\ \A c \in model.auto_now : r[c] = now
        /\ \A c \in model.columns \ (model.auto_now_add \cup model.auto_now \cup {model.pk}) :
              r[c] = IF c \in DOMAIN Written(data) THEN Written(data)[c] ELSE row[c]

\* The pair a review write would leave is held by no other review.
PairFree(property, user, except) ==
    \A r \in reviews : (r.property = property /\ r.user = user) => r.review_id = except

\* Every write whose payload also carries all the read-only keys is accepted
\* exactly when the writable part is valid, and stores what the writable part says.
C7_Step ==
    /\ \A data \in ListingData :
          ListingCreate(data, TRUE) =>
              /\ last'.ok = ReferencesExist(data)
              /\ IF last'.ok THEN CreatedAsWritten(listings, listings', ListingModel, data)
                 ELSE UNCHANGED listings
    /\ \A row \in listings, data \in ListingPatches :
          ListingUpdate(row, data, TRUE) =>
              /\ last'.ok = ReferencesExist(data)
              /\ IF last'.ok
                 THEN UpdatedAsWritten(listings, listings', ListingModel, row, data)
                 ELSE UNCHANGED listings
    /\ \A data \in BookingData :
          BookingCreate(data, TRUE) =>
              /\ last'.ok = ReferencesExist(data)
              /\ IF last'.ok THEN CreatedAsWritten(bookings, bookings', BookingModel, data)
                 ELSE UNCHANGED bookings
    /\ \A row \in bookings, data \in BookingPatches :
          BookingUpdate(row, data, TRUE) =>
              /\ last'.ok = ReferencesExist(data)
              /\ IF last'.ok
                 THEN UpdatedAsWritten(bookings, bookings', BookingModel, row, data)
                 ELSE UNCHANGED bookings
    /\ \A data \in ReviewData :
          ReviewCreate(data, TRUE) =>
              /\ last'.ok = (/\ ReferencesExist(data)
                             /\ PairFree(data.property_id, data.user_id, nextId))
              /\ IF last'.ok THEN CreatedAsWritten(reviews, reviews', ReviewModel, data)
                 ELSE UNCHANGED reviews
    /\ \A row \in reviews, data \in ReviewPatches :
          ReviewUpdate(row, data, TRUE) =>
              /\ last'.ok =
                    (/\ ReferencesExist(data)
                     /\ PairFree(IF "property_id" \in DOMAIN data THEN data.property_id
                                 ELSE row.property,
                                 IF "user_id" \in DOMAIN data THEN data.user_id ELSE row.user,
                                 row.review_id))
              /\ IF last'.ok
                 THEN UpdatedAsWritten(reviews, reviews', ReviewModel, row, data)
                 ELSE UNCHANGED reviews

\* C7: in a create or update of a Listing, Booking or Review through its serializer
\* the supplied identifier, timestamps and nested read-only values are ignored without
\* error: the row gets the key, the timestamps and the references of the same write
\* without them.
C7_ReadOnlyIgnored == [][C7_Step]_vars

\* An accepted update, at a time after the row's creation, whose payload carried
\* the read-only keys.
C7_Witness ==
    /\ last.op = "listing_update"
    /\ last.ok
    /\ last.forged
    /\ \E l \in listings : l.listing_id = last.id /\ l.created_at < l.updated_at

\* C8: the reviews in the read shape of a Listing are exactly the Review rows that
\* refer to it, each once, with created_at never increasing along the array.
C8_ReviewsOfReadShape ==
    last.op = "listing_read" =>
        /\ {last.body[n].review_id : n \in 1..Len(last.body)} =
              {r.review_id : r \in {x \in reviews : x.property = last.id}}
        /\ Len(last.body) = Cardinality({x \in reviews : x.property = last.id})
        /\ \A n \in 1..Len(last.body) : last.body[n].property = last.id
        /\ \A a \in 1..Len(last.body), b \in 1..Len(last.body) :
              a < b => last.body[a].created_at >= last.body[b].created_at

\* A read of a listing with two reviews of different times, while another listing
\* has a review too.
C8_Witness ==
    /\ last.op = "listing_read"
    /\ Len(last.body) >= 2
    /\ last.body[1].created_at > last.body[2].created_at
    /\ \E r \in reviews : r.property # last.id

(***************************************************************************)
(* The whole system: seed commands, and between them writes, reads and     *)
(* deletes on whatever the database holds.                                 *)
(***************************************************************************)
\* user.delete(): the row and, by on_delete=CASCADE, the user's listings (with
\* their bookings and reviews), bookings and reviews; it returns how many rows of
\* each table went.
UserDelete(row) ==
    /\ CanServe
    /\ Served
    /\ row \in users
    /\ LET goneL == ListingsOfUsers({row.id})
           goneB == {b \in bookings : b.user = row.id} \cup BookingsOfListings(goneL)
           goneR == {r \in reviews : r.user = row.id} \cup ReviewsOfListings(goneL)
       IN  /\ users' = users \ {row}
           /\ listings' = {l \in listings : l.listing_id \notin goneL}
           /\ bookings' = bookings \ goneB
           /\ reviews' = reviews \ goneR
           /\ last' = Response("user_delete", TRUE, "none", row.id, FALSE,
                               [listings |-> Cardinality(goneL),
                                bookings |-> Cardinality(goneB),
                                reviews |-> Cardinality(goneR)])
    /\ UNCHANGED <<nextId, now, pc, seedLocals>>

\* The seed command with the draws that bear on no reference fixed (the price, the
\* check-in offset, the length of the stay) and each count 0 or 1; the roles, the
\* guests and the reviewers are drawn as in SeedStep.
SystemSeed ==
    \/ /\ Idle
       /\ \E clear \in BOOLEAN, nu \in 0..1, nl \in 0..1, nb \in 0..1, nr \in 0..1 :
             StartSeed(clear, nu, nl, nb, nr)
    \/ ClearReviews
    \/ ClearBookings
    \/ ClearListings
    \/ ClearUsers
    \/ \E role \in Roles : GenUser(role)
    \/ PartitionUsers
    \/ GenListing(PriceMin)
    \/ ListingsDone
    \/ \E guest \in {0} \cup {u.id : u \in users} : GenBooking(guest, CheckInMin, StayMin)
    \/ BookingsDone
    \/ \E reviewer \in {0} \cup {u.id : u \in users} : GenReview(reviewer)
    \/ Finish

\* The writes through the serializers, each payload carrying the read-only keys
\* as well, and the deletes; reads and the clock change no row.
SystemWrite ==
    \/ \E data \in ListingData : ListingCreate(data, TRUE)
    \/ \E row \in listings, data \in ListingPatches : ListingUpdate(row, data, TRUE)
    \/ \E data \in BookingData : BookingCreate(data, TRUE)
    \/ \E row \in bookings, data \in BookingPatches : BookingUpdate(row, data, TRUE)
    \/ \E data \in ReviewData : ReviewCreate(data, TRUE)
    \/ \E row \in reviews, data \in ReviewPatches : ReviewUpdate(row, data, TRUE)
    \/ \E row \in listings : ListingDelete(row)
    \/ \E row \in users : UserDelete(row)

SystemNext ==
    \/ SystemSeed
    \/ SystemWrite

SystemSpec == Init /\ [][SystemNext]_vars

\* C11: in every reachable state, the states between the deletes of the clear
\* phase and the state after a cascading delete of a listing or a user included,
\* each listing's host is an existing user and each booking's and each review's
\* listing and user are an existing listing and an existing user.
C11_ReferentialIntegrity ==
    /\ \A l \in listings : \E u \in users : u.id = l.host
    /\ \A b \in bookings :
          /\ \E l \in listings : l.listing_id = b.property
          /\ \E u \in users : u.id = b.user
    /\ \A r \in reviews :
          /\ \E l \in listings : l.listing_id = r.property
          /\ \E u \in users : u.id = r.user

\* The middle of a clear phase (reviews and bookings gone, listings still there)
\* that follows the delete of a user whose listings and bookings went with the user.
C11_Witness ==
    /\ pc = "clear_listings"
    /\ listings # {}
    /\ last.op = "user_delete"
    /\ last.body.listings > 0
    /\ last.body.bookings > 0

====
